---- MODULE Spec2Model ----
(***************************************************************************)
(* The log dispatch engine of consola (src/src/consola.ts): severity       *)
(* filter, record normalisation, duplicate suppression with its deferred   *)
(* flush timer, and the process-wide pause queue.                          *)
(*                                                                         *)
(* JavaScript values are named by strings ("a", "oMsg", ...); the shape of *)
(* the objects among them is given by the table Objects.  An optional      *)
(* field is a sequence of length 0 (undefined/absent) or 1.                *)
(***************************************************************************)
EXTENDS Integers, Sequences, FiniteSets, TLC

VARIABLES
    now,        \* the wall clock read by `new Date()`
    paused,     \* consola.ts:25  module-level pause flag
    queue,      \* consola.ts:31  module-level queue of deferred dispatches
    options,    \* per instance: level (threshold), throttle, throttleMin, reporters
    lastLog,    \* per instance: this._lastLog
    out,        \* reporter.log invocations made by the last step, in order
    calls,      \* _logFn invocations made by the last step, in order
    last,       \* the operation the last step performed, and its outcome
    ghost,      \* per instance bookkeeping used only to state properties
    console,    \* the methods of the global console object, by property name
    streams,    \* per output stream: its write/__write and the data written to it
    result      \* what the last call of a utility or of prompt returned or threw

\* the surroundings of the engine
env == <<console, streams, result>>

vars == <<now, paused, queue, options, lastLog, out, calls, last, ghost, env>>

----------------------------------------------------------------------------
(* Bounds of the model *)

MaxTime == 4          \* the clock runs 0..MaxTime
MaxQueue == 2         \* queued dispatches while paused
MaxRepeated == 2      \* cap on lastLog.count - throttleMin
MaxThrottleMin == 2   \* throttleMin is drawn from 0..MaxThrottleMin
MaxThrottle == 2      \* throttle is drawn from 1..MaxThrottle
MaxPadding == 3       \* the padding of a box is drawn from 0..MaxPadding
MaxDepth == 3         \* maxDepth of a tree is drawn from -1..MaxDepth
MaxRun == 3           \* positions in a run of identical records are told apart up to MaxRun
MaxReporters == 2     \* addReporter is called while an instance has fewer reporters

Insts == {1, 2}

None == <<>>
Some(x) == <<x>>

----------------------------------------------------------------------------
(* Severity model *)

NegInf == -1000000
PosInf == 1000000

LogLevels ==
    [silent |-> NegInf, fatal |-> 0, error |-> 0, warn |-> 1, log |-> 2,
     info |-> 3, success |-> 3, fail |-> 3, ready |-> 3, start |-> 3,
     box |-> 3, debug |-> 4, trace |-> 5, verbose |-> PosInf]

LogTypes ==
    [silent  |-> [level |-> Some(-1)],
     fatal   |-> [level |-> Some(LogLevels.fatal)],
     error   |-> [level |-> Some(LogLevels.error)],
     warn    |-> [level |-> Some(LogLevels.warn)],
     log     |-> [level |-> Some(LogLevels.log)],
     info    |-> [level |-> Some(LogLevels.info)],
     success |-> [level |-> Some(LogLevels.success)],
     fail    |-> [level |-> Some(LogLevels.fail)],
     ready   |-> [level |-> Some(LogLevels.info)],
     start   |-> [level |-> Some(LogLevels.info)],
     box     |-> [level |-> Some(LogLevels.info)],
     debug   |-> [level |-> Some(LogLevels.debug)],
     trace   |-> [level |-> Some(LogLevels.trace)],
     verbose |-> [level |-> Some(LogLevels.verbose)]]

\* A level input is undefined, a number or a string.
UndefinedInput == [t |-> "undefined", n |-> 0, s |-> ""]
NumberInput(n) == [t |-> "number", n |-> n, s |-> ""]
StringInput(s) == [t |-> "string", n |-> 0, s |-> s]

_normalizeLogLevel_clamped(input, types, defaultLevel) ==
    IF input.t = "undefined" THEN defaultLevel
    ELSE IF input.t = "number"
         THEN IF input.n < 0 THEN 0 ELSE IF input.n > 5 THEN 5 ELSE input.n
    ELSE IF input.s \in DOMAIN types /\ types[input.s].level # None
         THEN types[input.s].level[1]
    ELSE defaultLevel

_normalizeLogLevel(input, types, defaultLevel) ==
    IF input.t = "undefined" THEN defaultLevel
    ELSE IF input.t = "number" THEN input.n
    ELSE IF input.s \in DOMAIN types /\ types[input.s].level # None
         THEN types[input.s].level[1]
    ELSE defaultLevel

\* `x || 0` on an optional number
OrZero(x) == IF x = None THEN 0 ELSE x[1]

----------------------------------------------------------------------------
(* JavaScript values passed as arguments *)

Obj(message, hasArgs, args, stack, level, cyclic, json) ==
    [message |-> message, hasArgs |-> hasArgs, args |-> args, stack |-> stack,
     level |-> level, cyclic |-> cyclic, json |-> json,
     additional |-> None, type |-> None, tag |-> None, date |-> None]

\* an `additional` field: one string, or a list of strings
Str(s) == [isArray |-> FALSE, v |-> s]
Arr(a) == [isArray |-> TRUE, v |-> a]

\* values that are no strings: the number 5
NonStrings == {"#5"}
IsString(v) == v \notin NonStrings

\* the date a pre-built record brings along: before every dispatch time
PastDate == -5

\* plain objects: Object.prototype.toString gives "[object Object]"
Objects ==
    [oMsg      |-> Obj(Some("a"), FALSE, <<>>, None, None, FALSE, "{\"message\":\"a\"}"),
     oMsgStack |-> Obj(Some("a"), FALSE, <<>>, Some("s"), None, FALSE,
                       "{\"message\":\"a\",\"stack\":\"s\"}"),
     oArgs     |-> Obj(None, TRUE, <<"b">>, None, None, FALSE, "{\"args\":[\"b\"]}"),
     oArgsStack |-> Obj(None, TRUE, <<"b">>, Some("s"), None, FALSE,
                       "{\"args\":[\"b\"],\"stack\":\"s\"}"),
     oMsgArgs  |-> Obj(Some("a"), TRUE, <<"b">>, None, None, FALSE,
                       "{\"message\":\"a\",\"args\":[\"b\"]}"),
     oEmptyMsg |-> Obj(Some(""), FALSE, <<>>, None, None, FALSE, "{\"message\":\"\"}"),
     oMsgEmptyStack |-> Obj(Some("a"), FALSE, <<>>, Some(""), None, FALSE,
                       "{\"message\":\"a\",\"stack\":\"\"}"),
     oMsgLevel |-> Obj(Some("a"), FALSE, <<>>, None, Some(5), FALSE,
                       "{\"message\":\"a\",\"level\":5}"),
     oOther    |-> Obj(None, FALSE, <<>>, None, None, FALSE, "{\"foo\":1}"),
     oFull     |-> [Obj(Some("a"), TRUE, <<"b">>, None, None, FALSE, "{oFull}") EXCEPT
                       !.additional = Some(Str("x\ny")), !.type = Some("WARN"),
                       !.tag = Some("t"), !.date = Some(PastDate)],
     oAddArr   |-> [Obj(None, TRUE, <<"b">>, None, None, FALSE, "{oAddArr}") EXCEPT
                       !.additional = Some(Arr(<<"x", "y">>))],
     oAddOne   |-> [Obj(Some("a"), FALSE, <<>>, None, None, FALSE, "{oAddOne}") EXCEPT
                       !.additional = Some(Str("x"))],
     oNoString |-> [Obj(None, TRUE, <<"b">>, None, None, FALSE, "{oNoString}") EXCEPT
                       !.type = Some("#5"), !.tag = Some("#5")],
     oEmptyBoth |-> [Obj(Some(""), TRUE, <<"b">>, None, None, FALSE, "{oEmptyBoth}") EXCEPT
                       !.additional = Some(Str(""))],
     oCyclic   |-> Obj(None, FALSE, <<>>, None, None, TRUE, "")]

\* strings, and an Error instance ("[object Error]", own message and stack
\* are not enumerable: JSON.stringify gives {})
Strings == {"a", "b", "s", ""}

isPlainObject(obj) == obj \in DOMAIN Objects

isLogObj_noStackCheck(arg) ==
    IF ~isPlainObject(arg) THEN FALSE
    ELSE IF ~(Objects[arg].message # None /\ Objects[arg].message[1] # "")
            /\ ~Objects[arg].hasArgs
         THEN FALSE
    ELSE TRUE

isLogObj(arg) ==
    IF ~isPlainObject(arg) THEN FALSE
    ELSE IF ~(Objects[arg].message # None /\ Objects[arg].message[1] # "")
            /\ ~Objects[arg].hasArgs
         THEN FALSE
    ELSE IF Objects[arg].stack # None /\ Objects[arg].stack[1] # "" THEN FALSE
    ELSE TRUE

\* JSON.stringify of one value; Throws(v) when it raises (cyclic structure)
Throws(v) == isPlainObject(v) /\ Objects[v].cyclic
JSON(v) ==
    IF isPlainObject(v) THEN Objects[v].json
    ELSE IF v = "err" THEN "{}"
    ELSE "\"" \o v \o "\""

----------------------------------------------------------------------------
(* Record normalisation: consola.ts _logFn, lines 386-418 *)

ToLowerCase_same(s) == s

\* String.prototype.toLowerCase on the kinds used here
ToLowerCase(s) ==
    IF s = "INFO" THEN "info" ELSE IF s = "WARN" THEN "warn" ELSE s

\* the per-kind defaults the constructor binds into each call-site
Defaults(type, types) ==
    [type |-> type, tag |-> None, level |-> types[type].level]

LevelInput(l) == IF l = None THEN UndefinedInput ELSE NumberInput(l[1])

\* Object.assign(logObj, args[0])
Assign(logObj, o) ==
    [logObj EXCEPT
        !.message = IF o.message # None THEN o.message ELSE @,
        !.args    = IF o.hasArgs THEN o.args ELSE @,
        !.stack   = IF o.stack # None THEN o.stack ELSE @,
        !.level   = IF o.level # None THEN o.level[1] ELSE @,
        !.additional = IF o.additional # None THEN o.additional ELSE @,
        !.type    = IF o.type # None THEN o.type ELSE @,
        !.tag     = IF o.tag # None THEN o.tag ELSE @,
        !.date    = IF o.date # None THEN o.date[1] ELSE @]

\* arr.join(sep), of strings
RECURSIVE Join(_, _)
Join(arr, sep) ==
    IF arr = <<>> THEN ""
    ELSE IF Len(arr) = 1 THEN arr[1]
    ELSE arr[1] \o sep \o Join(Tail(arr), sep)

\* additional.split("\n") of a single string
SplitLines(str) == IF str = "x\ny" THEN <<"x", "y">> ELSE <<str>>

BuildLogObj(defaults, args, isRaw, t, types) ==
    LET base == [date |-> t, args |-> <<>>, type |-> Some(defaults.type),
                 tag |-> defaults.tag,
                 level |-> _normalizeLogLevel(LevelInput(defaults.level), types, 3),
                 message |-> None, stack |-> None, additional |-> None]
        \* lines 401-404: a truthy message is moved to the front of args
        aliases(o1) ==
              IF o1.message # None /\ o1.message[1] # ""
              THEN [o1 EXCEPT !.args = <<o1.message[1]>> \o @, !.message = None]
              ELSE o1
        \* lines 405-411: a truthy additional becomes the last argument, a
        \* newline followed by its lines joined with newlines
        appended(o3) ==
              IF o3.additional # None /\ (o3.additional[1].isArray \/ o3.additional[1].v # "")
              THEN [o3 EXCEPT
                      !.args = Append(@, "\n" \o Join(IF o3.additional[1].isArray
                                                      THEN o3.additional[1].v
                                                      ELSE SplitLines(o3.additional[1].v),
                                                      "\n")),
                      !.additional = None]
              ELSE o3
        \* lines 415-418: type and tag become strings
        normalize(o2) ==
              [o2 EXCEPT !.type = IF @ # None /\ IsString(@[1]) THEN ToLowerCase(@[1]) ELSE "log",
                         !.tag  = IF @ # None /\ IsString(@[1]) THEN @[1] ELSE ""]
    IN  normalize(appended(aliases(IF ~isRaw /\ Len(args) = 1 /\ isLogObj(args[1])
                                   THEN Assign(base, Objects[args[1]])
                                   ELSE [base EXCEPT !.args = args])))

\* JSON.stringify([logObj.type, logObj.tag, logObj.args])
CanSerialize_always(logObj) == TRUE

CanSerialize(logObj) == \A k \in 1..Len(logObj.args) : ~Throws(logObj.args[k])

Serialize(logObj) ==
    <<logObj.type, logObj.tag, [k \in 1..Len(logObj.args) |-> JSON(logObj.args[k])]>>

----------------------------------------------------------------------------
(* Rendering and duplicate suppression: consola.ts lines 424-491 *)

\* one reporter.log invocation; `flush` tells the re-render of line 432 from
\* the render of line 439
Entry(i, r, logObj, flush) == [inst |-> i, reporter |-> r, rec |-> logObj, flush |-> flush]

_log(i, reporters, logObj, flush) ==
    [k \in 1..Len(reporters) |-> Entry(i, reporters[k], logObj, flush)]

RepeatedArg(n) == "(repeated " \o ToString(n) \o " times)"

FlushArgs_always(object, repeated) ==
    IF repeated > 0 THEN Append(object.args, RepeatedArg(repeated)) ELSE object.args

FlushArgs(object, repeated) ==
    IF repeated > 1 THEN Append(object.args, RepeatedArg(repeated)) ELSE object.args

resolveLog_newFirst(i, o, L, logObj, newLog) ==
    LET repeated == OrZero(L.count) - o.throttleMin
        flush == L.object # None /\ repeated > 0
        out1 == IF flush
                THEN _log(i, o.reporters,
                          [L.object[1] EXCEPT !.args = FlushArgs(L.object[1], repeated)], TRUE)
                ELSE <<>>
        L1 == IF flush THEN [L EXCEPT !.count = Some(1)] ELSE L
    IN  IF newLog
        THEN [lastLog |-> [L1 EXCEPT !.object = Some(logObj)],
              out |-> _log(i, o.reporters, logObj, FALSE) \o out1,
              flushed |-> flush]
        ELSE [lastLog |-> L1, out |-> out1, flushed |-> flush]

\* resolveLog(newLog) on instance i with options o and _lastLog L
resolveLog(i, o, L, logObj, newLog) ==
    LET repeated == OrZero(L.count) - o.throttleMin
        flush == L.object # None /\ repeated > 0
        out1 == IF flush
                THEN _log(i, o.reporters,
                          [L.object[1] EXCEPT !.args = FlushArgs(L.object[1], repeated)], TRUE)
                ELSE <<>>
        L1 == IF flush THEN [L EXCEPT !.count = Some(1)] ELSE L
    IN  IF newLog
        THEN [lastLog |-> [L1 EXCEPT !.object = Some(logObj)],
              out |-> out1 \o _log(i, o.reporters, logObj, FALSE),
              flushed |-> flush]
        ELSE [lastLog |-> L1, out |-> out1, flushed |-> flush]

PassesFilter_ge(defaults, o) == ~(OrZero(defaults.level) >= o.level)

\* line 382: ((defaults.level as number) || 0) > this.level  drops the dispatch
PassesFilter(defaults, o) == ~(OrZero(defaults.level) > o.level)

InWindow_always(diffTime, throttle) == TRUE

\* line 452: diffTime < this.options.throttle
InWindow(diffTime, throttle) == diffTime < throttle

OverThrottleMin_ge(count, throttleMin) == count >= throttleMin

\* line 463: this._lastLog.count > this.options.throttleMin
OverThrottleMin(count, throttleMin) == count > throttleMin

\* _logFn(defaults, args, isRaw) on instance i at time t.  res is "dropped"
\* (return false at line 383), "suppressed" (return at line 469) or "rendered".
Dropped_clearsTimer(L) ==
    [lastLog |-> [L EXCEPT !.timeout = None], out |-> <<>>, res |-> "dropped",
     flushed |-> FALSE, logObj |-> None, inWindow |-> FALSE]

\* line 383: the early return of a filtered dispatch, _lastLog as it was
Dropped(L) ==
    [lastLog |-> L, out |-> <<>>, res |-> "dropped", flushed |-> FALSE,
     logObj |-> None, inWindow |-> FALSE]

_logFn(i, o, L, defaults, args, isRaw, t) ==
    IF ~PassesFilter(defaults, o)
    THEN Dropped(L)
    ELSE
    LET throttled(logObj) ==
      LET
        diffTime == IF L.time # None THEN logObj.date - L.time[1] ELSE 0
        L1 == [L EXCEPT !.timeout = None, !.time = Some(logObj.date)]
        inWindow == InWindow(diffTime, o.throttle)
        ser == Serialize(logObj)
        isSameLog == L1.serialized = Some(ser)
        L2 == [L1 EXCEPT !.serialized = Some(ser)]
        L3 == [L2 EXCEPT !.count = Some(OrZero(@) + 1)]
        done(LL) == LET r == resolveLog(i, o, LL, logObj, TRUE)
                    IN  [lastLog |-> r.lastLog, out |-> r.out, res |-> "rendered",
                         flushed |-> r.flushed, logObj |-> Some(logObj),
                         inWindow |-> inWindow]
      IN
        IF inWindow /\ CanSerialize(logObj)
        THEN IF isSameLog
             THEN IF OverThrottleMin(L3.count[1], o.throttleMin)
                  THEN [lastLog |-> [L3 EXCEPT !.timeout = Some(t + o.throttle)],
                        out |-> <<>>, res |-> "suppressed", flushed |-> FALSE,
                        logObj |-> Some(logObj), inWindow |-> inWindow]
                  ELSE done(L3)
             ELSE done(L2)
        ELSE done(L1)
    IN  throttled(BuildLogObj(defaults, args, isRaw, t, o.types))

----------------------------------------------------------------------------
(* Bookkeeping for the properties (not program state) *)

NoDate(logObj) == [logObj EXCEPT !.date = 0]

GhostInit ==
    [absorbed |-> 0, pend |-> None, n |-> 0, ok |-> TRUE, first |-> None, late |-> Some(FALSE),
     run |-> Some(0), prev |-> None]

\* no bookkeeping of repeats of the first record, of elapsed time, nor of runs
GhostOff == [GhostInit EXCEPT !.ok = FALSE, !.late = None, !.run = None]

\* run: the position of the latest dispatch in its run of identical records,
\* each within the window of the previous dispatch (counted up to MaxRun)
RunStep(g, rec, inWindow) ==
    IF g.run = None THEN g
    ELSE [g EXCEPT !.run = IF g.prev = Some(rec) /\ inWindow
                           THEN Some(IF @[1] < MaxRun THEN @[1] + 1 ELSE MaxRun)
                           ELSE Some(1),
                   !.prev = Some(rec)]

\* after one _logFn evaluation with result r on an instance with options o:
\*   absorbed  dispatches suppressed since the last flush
\*   pend      fingerprint of the last suppressed dispatch, until the next flush
\*   late      the last dispatch that passed the filter found
\*             elapsed >= throttle (where tracked)
\*   n, first  while ok: every dispatch since construction that passed the
\*             filter built the record `first`, each within the window of
\*             the previous one, and there were n of them
GhostStep(g, o, r) ==
    IF r.res = "dropped" THEN g
    ELSE
    LET rec == NoDate(r.logObj[1])
        streak == g.ok /\ (g.n = 0 \/ (g.first = Some(rec) /\ r.inWindow))
                       /\ g.n < o.throttleMin + 2
        g0 == [RunStep(g, rec, r.inWindow) EXCEPT
                  !.late = IF @ = None THEN None ELSE Some(~r.inWindow)]
        g1 == IF streak THEN [g0 EXCEPT !.n = @ + 1, !.first = Some(rec)]
              ELSE [g0 EXCEPT !.n = 0, !.first = None, !.ok = FALSE]
    IN  IF r.res = "suppressed"
        THEN [g1 EXCEPT !.absorbed = @ + 1, !.pend = Some(Serialize(r.logObj[1]))]
        ELSE IF r.flushed THEN [g1 EXCEPT !.absorbed = 0, !.pend = None]
        ELSE g1

Op(op, i, type, isRaw, args, res) ==
    [op |-> op, inst |-> i, type |-> type, isRaw |-> isRaw, args |-> args, res |-> res]

\* a queued dispatch: the item [this, defaults, args, isRaw] of line 369
Item(i, defaults, args, isRaw) ==
    [inst |-> i, defaults |-> defaults, args |-> args, isRaw |-> isRaw]

\* one _logFn invocation and its outcome
Invocation(i, defaults, args, isRaw, res) ==
    [inst |-> i, defaults |-> defaults, args |-> args, isRaw |-> isRaw, res |-> res]

WithinCap(i, L) ==
    /\ now + options[i].throttle <= MaxTime
    /\ OrZero(L.count) - options[i].throttleMin <= MaxRepeated

----------------------------------------------------------------------------
(* Operations *)

\* lines 89-93: the defaults of the call-site of kind `type`, the kind's
\* name and level with the instance's default tag
CallSite(type, o) == [Defaults(type, o.types) EXCEPT !.tag = o.defaults.tag]

\* the call-site built by _wrapLogFn(defaults, isRaw) for kind `type`
_wrapLogFn(i, type, isRaw, args) ==
    LET defaults == CallSite(type, options[i]) IN
    IF paused
    THEN /\ Len(queue) < MaxQueue
         /\ queue' = Append(queue, Item(i, defaults, args, isRaw))
         /\ out' = <<>>
         /\ calls' = <<>>
         /\ last' = Op("call", i, type, isRaw, args, "queued")
         /\ UNCHANGED <<now, paused, options, lastLog, ghost, env>>
    ELSE \E r \in {_logFn(i, options[i], lastLog[i], defaults, args, isRaw, now)} :
         /\ WithinCap(i, r.lastLog)
         /\ lastLog' = [lastLog EXCEPT ![i] = r.lastLog]
         /\ out' = r.out
         /\ calls' = <<Invocation(i, defaults, args, isRaw, r.res)>>
         /\ last' = Op("call", i, type, isRaw, args, r.res)
         /\ ghost' = [ghost EXCEPT ![i] = GhostStep(@, options[i], r)]
         /\ UNCHANGED <<now, paused, queue, options, env>>

\* the deferred setTimeout(resolveLog, throttle) of line 465 runs
TimerFire(i) ==
    /\ lastLog[i].timeout # None
    /\ now >= lastLog[i].timeout[1]
    /\ LET r == resolveLog(i, options[i], [lastLog[i] EXCEPT !.timeout = None], None, FALSE) IN
         /\ lastLog' = [lastLog EXCEPT ![i] = r.lastLog]
         /\ out' = r.out
         /\ ghost' = [ghost EXCEPT ![i] =
                        IF r.flushed THEN [@ EXCEPT !.absorbed = 0, !.pend = None] ELSE @]
    /\ calls' = <<>>
    /\ last' = Op("timer", i, "", FALSE, <<>>, IF out' = <<>> THEN "none" ELSE "flushed")
    /\ UNCHANGED <<now, paused, queue, options, env>>

pauseLogs(i) ==
    /\ paused' = TRUE
    /\ out' = <<>>
    /\ calls' = <<>>
    /\ last' = Op("pause", i, "", FALSE, <<>>, "")
    /\ UNCHANGED <<now, queue, options, lastLog, ghost, env>>

RECURSIVE Replay_lifo(_, _, _, _, _)
Replay_lifo(q, LL, G, acc, cs) ==
    IF q = <<>> THEN [lastLog |-> LL, ghost |-> G, out |-> acc, calls |-> cs]
    ELSE LET item == q[Len(q)]
             i == item.inst
             rest(r) ==
                 Replay_lifo(SubSeq(q, 1, Len(q) - 1), [LL EXCEPT ![i] = r.lastLog],
                    [G EXCEPT ![i] = GhostStep(@, options[i], r)],
                    acc \o r.out,
                    Append(cs, Invocation(i, item.defaults, item.args, FALSE, r.res)))
         IN  rest(_logFn(i, options[i], LL[i], item.defaults, item.args, FALSE, now))

\* the loop of resumeLogs over the spliced queue: item[0]._logFn(item[1], item[2])
RECURSIVE Replay(_, _, _, _, _)
Replay(q, LL, G, acc, cs) ==
    IF q = <<>> THEN [lastLog |-> LL, ghost |-> G, out |-> acc, calls |-> cs]
    ELSE LET item == Head(q)
             i == item.inst
             rest(r) ==
                 Replay(Tail(q), [LL EXCEPT ![i] = r.lastLog],
                    [G EXCEPT ![i] = GhostStep(@, options[i], r)],
                    acc \o r.out,
                    Append(cs, Invocation(i, item.defaults, item.args, FALSE, r.res)))
         IN  rest(_logFn(i, options[i], LL[i], item.defaults, item.args, FALSE, now))

resumeLogs_own(i) ==
    LET own == SelectSeq(queue, LAMBDA item : item.inst = i)
        r == Replay(own, lastLog, ghost, <<>>, <<>>) IN
    /\ \A k \in 1..Len(own) : WithinCap(i, r.lastLog[i])
    /\ paused' = FALSE
    /\ queue' = SelectSeq(queue, LAMBDA item : item.inst # i)
    /\ lastLog' = r.lastLog
    /\ ghost' = r.ghost
    /\ out' = r.out
    /\ calls' = r.calls
    /\ last' = Op("resume", i, "", FALSE, <<>>, "")
    /\ UNCHANGED <<now, options, env>>

resumeLogs(i) ==
    LET r == Replay(queue, lastLog, ghost, <<>>, <<>>) IN
    /\ \A k \in 1..Len(queue) : WithinCap(queue[k].inst, r.lastLog[queue[k].inst])
    /\ paused' = FALSE
    /\ queue' = <<>>
    /\ lastLog' = r.lastLog
    /\ ghost' = r.ghost
    /\ out' = r.out
    /\ calls' = r.calls
    /\ last' = Op("resume", i, "", FALSE, <<>>, "")
    /\ UNCHANGED <<now, options, env>>

\* set level(level)
SetLevel(i, input) ==
    /\ options' = [options EXCEPT ![i].level =
                      _normalizeLogLevel(input, options[i].types, options[i].level)]
    /\ out' = <<>>
    /\ calls' = <<>>
    /\ last' = Op("level", i, "", FALSE, <<input>>, "")
    /\ UNCHANGED <<now, paused, queue, lastLog, ghost, env>>

\* time passes
Tick ==
    /\ now < MaxTime
    /\ now' = now + 1
    /\ out' = <<>>
    /\ calls' = <<>>
    /\ last' = Op("tick", 0, "", FALSE, <<>>, "")
    /\ UNCHANGED <<paused, queue, options, lastLog, ghost, env>>

----------------------------------------------------------------------------
(* Construction: new Consola(options), lines 66-114 *)

\* options.types of an instance with kinds of its own: one without a level,
\* one with a level, and a default kind's name without a level
CustomTypes ==
    [custom |-> [level |-> None], loud |-> [level |-> Some(7)], warn |-> [level |-> None]]

\* every kind an instance of this model is configured with
Kinds == DOMAIN LogTypes \cup DOMAIN CustomTypes

\* the methods console has before any interception; the kinds that name no
\* console method are undefined (None)
NativeConsole ==
    [p \in Kinds \cup {"__" \o t : t \in Kinds} |->
        IF p \in {"log", "info", "warn", "error", "debug", "trace"}
        THEN Some("native " \o p) ELSE None]

\* the output streams before any interception: each writes with its own
\* write method and has no __write property
StreamNames == {"process.stdout", "process.stderr", "custom"}

NativeStreams ==
    [s \in StreamNames |-> [write |-> "own", __write |-> None, data |-> <<>>]]

EmptyLastLog ==
    [serialized |-> None, object |-> None, count |-> None, time |-> None, timeout |-> None]

Consola(level, throttle, throttleMin, reporters) ==
    [level |-> _normalizeLogLevel(level, LogTypes, 3), throttle |-> throttle,
     throttleMin |-> throttleMin, reporters |-> reporters,
     types |-> LogTypes, prompt |-> None, stdout |-> None, stderr |-> None,
     defaults |-> [tag |-> None], array |-> 0]

\* defu(options.types, LogTypes), line 69: the given kinds over the default
\* ones, a given kind without a level taking the default kind's level
defu(types, defaults) ==
    [k \in DOMAIN types \cup DOMAIN defaults |->
        IF k \in DOMAIN types /\ (k \notin DOMAIN defaults \/ types[k].level # None)
        THEN types[k] ELSE defaults[k]]

\* new Consola({level, types}): `types` is options.types || LogTypes (line 68)
ConsolaOfTypes(level, types) ==
    [Consola(UndefinedInput, 1, 1, <<"r1">>) EXCEPT
        !.level = _normalizeLogLevel(level, IF types = None THEN LogTypes ELSE types[1], 3),
        !.types = IF types = None THEN LogTypes ELSE defu(types[1], LogTypes)]

InitWith(opts, g) ==
    /\ now = 0
    /\ paused = FALSE
    /\ queue = <<>>
    /\ options = opts
    /\ lastLog = [i \in Insts |-> EmptyLastLog]
    /\ out = <<>>
    /\ calls = <<>>
    /\ last = Op("new", 0, "", FALSE, <<>>, "")
    /\ ghost = [i \in Insts |-> g]
    /\ console = NativeConsole
    /\ streams = NativeStreams
    /\ result = None

----------------------------------------------------------------------------
(* SpecDedup: duplicate suppression and its timer on one instance, for every *)
(* throttleMin in 0..MaxThrottleMin and throttle in 1..MaxThrottle           *)

DedupArgs == {<<"a">>, <<"b">>, <<"oCyclic">>}

InitDedup ==
    \E m \in 0..MaxThrottleMin, w \in 1..MaxThrottle :
        InitWith([i \in Insts |-> Consola(UndefinedInput, w, m, <<"r1", "r2">>)], GhostInit)

NextDedup ==
    \/ \E args \in DedupArgs : _wrapLogFn(1, "info", FALSE, args)
    \/ TimerFire(1)
    \/ Tick

SpecDedup == InitDedup /\ [][NextDedup]_vars

\* the event loop runs a due timer, and time passes
FairDedup == SpecDedup /\ WF_vars(TimerFire(1)) /\ WF_vars(Tick)

----------------------------------------------------------------------------
(* SpecPause: the process-wide pause queue shared by two instances, over one *)
(* throttle window                                                          *)

PauseArgs == {<<"a">>, <<"b">>}

InitPause ==
    \E m \in {1} :
        InitWith([i \in Insts |->
            Consola(UndefinedInput, 1, m, IF i = 1 THEN <<"r1", "r2">> ELSE <<"r1">>)],
            GhostOff)

NextPause ==
    \/ \E args \in PauseArgs : _wrapLogFn(1, "info", FALSE, args)
    \/ _wrapLogFn(2, "info", FALSE, <<"a">>)
    \/ \E i \in Insts : TimerFire(i)
    \/ \E i \in Insts : pauseLogs(i)
    \/ \E i \in Insts : resumeLogs(i)
    \/ now < options[1].throttle /\ Tick

SpecPause == InitPause /\ [][NextPause]_vars

----------------------------------------------------------------------------
(* Properties of duplicate suppression (SpecDedup, FairDedup) *)

Reporters(i) == options[i].reporters
ThrottleMin(i) == options[i].throttleMin

\* the last step was a dispatch on i that _logFn did not drop or queue
Dispatched(i) ==
    last.op = "call" /\ last.inst = i /\ last.res \in {"rendered", "suppressed"}

\* the last step handed exactly one record to each reporter of i, once, in
\* the order of the reporter list, and it was no flush re-render
RenderedOnce(i, rec) ==
    /\ Len(out) = Len(Reporters(i))
    /\ \A k \in 1..Len(out) :
          /\ out[k].inst = i /\ out[k].reporter = Reporters(i)[k]
          /\ ~out[k].flush /\ NoDate(out[k].rec) = rec /\ out[k].rec.date = now

\* C3 as claimed: on a newly constructed instance the first throttleMin
\* dispatches of an identical record within the window are each rendered
\* immediately, and dispatch number throttleMin + 1 invokes no reporter.
\* (Stated for throttleMin >= 1 and a serializable record.)
C3_Original ==
    \A i \in Insts :
        (Dispatched(i) /\ ghost[i].ok /\ ThrottleMin(i) >= 1
            /\ CanSerialize(ghost[i].first[1]))
        => /\ ghost[i].n <= ThrottleMin(i) => RenderedOnce(i, ghost[i].first[1])
           /\ ghost[i].n = ThrottleMin(i) + 1 => out = <<>>

\* C3 amended: on a newly constructed instance the first throttleMin + 1
\* dispatches of an identical serializable record, each within the throttle
\* window of the previous one, are each rendered immediately and once per
\* reporter, and dispatch number throttleMin + 2 invokes no reporter.
C3_FirstRepeats ==
    \A i \in Insts :
        (Dispatched(i) /\ ghost[i].ok /\ CanSerialize(ghost[i].first[1]))
        => /\ ghost[i].n <= ThrottleMin(i) + 1
                => last.res = "rendered" /\ RenderedOnce(i, ghost[i].first[1])
           /\ ghost[i].n = ThrottleMin(i) + 2
                => last.res = "suppressed" /\ out = <<>>

C3_Witness ==
    /\ Dispatched(1) /\ ghost[1].ok /\ ThrottleMin(1) = 2
    /\ ghost[1].n = ThrottleMin(1) + 2 /\ last.res = "suppressed"
    /\ CanSerialize(ghost[1].first[1])

\* C4: a dispatch that is rendered while repeats of the previous record are
\* pending (count > throttleMin) hands the flush re-render of the previous
\* record to every reporter before it hands the new record to any.
C4_FlushBeforeNew ==
    [][\A i \in Insts :
        (Dispatched(i)' /\ last'.res = "rendered"
            /\ OrZero(lastLog[i].count) > ThrottleMin(i))
        => LET k == Len(Reporters(i)) IN
           /\ Len(out') = 2 * k
           /\ \A j \in 1..k :
                /\ out'[j].flush /\ out'[j].reporter = Reporters(i)[j]
                /\ out'[j].rec.date = lastLog[i].object[1].date
                /\ out'[j].rec.type = lastLog[i].object[1].type
                /\ SubSeq(out'[j].rec.args, 1, Len(lastLog[i].object[1].args))
                      = lastLog[i].object[1].args
                /\ ~out'[k + j].flush /\ out'[k + j].reporter = Reporters(i)[j]
                /\ out'[k + j].rec = lastLog'[i].object[1]
                /\ out'[k + j].rec.date = now
                /\ out'[k + j].rec.args = last'.args]_vars

C4_Witness ==
    /\ Dispatched(1) /\ last.res = "rendered" /\ Len(out) = 4
    /\ out[1].flush /\ out[2].flush /\ ~out[3].flush /\ ~out[4].flush
    /\ out[1].rec.args # out[3].rec.args

\* C5: for throttleMin >= 1 every flush, inline or by the timer, re-renders
\* the previous record once per reporter with its own arguments, followed by
\* "(repeated N times)" exactly when N > 1, where N = count - throttleMin is
\* the number of dispatches suppressed since the previous flush; afterwards
\* count is 1.
C5_Flush ==
    [][\A i \in Insts :
        (ThrottleMin(i) >= 1 /\ \E k \in 1..Len(out') : out'[k].flush /\ out'[k].inst = i)
        => LET N == OrZero(lastLog[i].count) - ThrottleMin(i)
               prev == lastLog[i].object[1]
               fl == SelectSeq(out', LAMBDA e : e.flush)
           IN  /\ N = ghost[i].absorbed
               /\ N >= 1
               /\ Len(fl) = Len(Reporters(i))
               /\ \A k \in 1..Len(fl) :
                     /\ fl[k].reporter = Reporters(i)[k]
                     /\ fl[k].rec =
                          [prev EXCEPT !.args =
                              IF N > 1
                              THEN prev.args \o <<"(repeated " \o ToString(N) \o " times)">>
                              ELSE prev.args]
               /\ lastLog'[i].count = Some(1)
               /\ ghost'[i].absorbed = 0]_vars

\* a timer flush of two suppressed dispatches, annotated
C5_Witness ==
    /\ last.op = "timer" /\ ThrottleMin(1) >= 1 /\ Len(out) = 2
    /\ out[1].flush /\ out[1].rec.args = <<"a", "(repeated 2 times)">>
    /\ lastLog[1].count = Some(1)

\* the arguments of a flushed record without the annotation
Unannotated(args) ==
    IF Len(args) > 0 /\ args[Len(args)] \in {RepeatedArg(n) : n \in 2..(MaxRepeated + 1)}
    THEN SubSeq(args, 1, Len(args) - 1)
    ELSE args

FlushedFingerprints ==
    {Serialize([out[k].rec EXCEPT !.args = Unannotated(@)]) :
        k \in {j \in 1..Len(out) : out[j].flush}}

DedupFingerprints ==
    {Serialize(BuildLogObj(Defaults("info", LogTypes), args, FALSE, 0, LogTypes)) :
        args \in {a \in DedupArgs : ~Throws(a[1])}}

\* C6: every suppressed dispatch is eventually shown by a flush: once a
\* record with fingerprint f has been suppressed, a flush re-render of a
\* record with fingerprint f eventually occurs (stated for throttleMin >= 1).
C6_SuppressedEventuallyFlushed ==
    \A f \in DedupFingerprints :
        (ThrottleMin(1) >= 1 /\ ghost[1].pend = Some(f)) ~> (f \in FlushedFingerprints)

\* the record a non-paused dispatch of the step builds
NewRecord == BuildLogObj(Defaults(last'.type, LogTypes), last'.args, last'.isRaw, now, LogTypes)

\* the step ends by handing rec to every reporter of i, once each and in
\* order, as a render that is no flush
RendersLast(i, rec) ==
    LET k == Len(Reporters(i)) IN
    /\ Len(out') >= k
    /\ SubSeq(out', Len(out') - k + 1, Len(out')) = _log(i, Reporters(i), rec, FALSE)

\* the step begins with one flush re-render per reporter of i
FlushesFirst(i) ==
    LET k == Len(Reporters(i)) IN
    /\ Len(out') = 2 * k
    /\ \A j \in 1..k : out'[j].flush /\ out'[j].reporter = Reporters(i)[j]
                        /\ out'[j].rec.date = lastLog[i].object[1].date

\* JSON.stringify raises on one of the record's arguments
Unserializable(rec) == \E k \in 1..Len(rec.args) : Throws(rec.args[k])

\* C11: a dispatch that passes the severity filter with a record whose
\* arguments cannot be serialized is never suppressed: the call completes
\* as a render, suppressed repeats that were pending are flushed first, the
\* repeat counter is then 1 and no flush timer stays armed, and the record
\* is handed to every reporter by the same call.
C11_UnserializableRendered ==
    [][(last'.op = "call" /\ last'.inst = 1 /\ last'.res # "dropped"
            /\ Unserializable(NewRecord))
        => /\ last'.res = "rendered"
           /\ RendersLast(1, NewRecord)
           /\ lastLog'[1].object = Some(NewRecord)
           /\ lastLog'[1].timeout = None
           /\ ghost[1].absorbed > 0
                => FlushesFirst(1) /\ lastLog'[1].count = Some(1)
                   /\ ghost'[1].absorbed = 0]_vars

\* a cyclic record dispatched within the window while repeats were pending
C11_Witness ==
    /\ Dispatched(1) /\ last.res = "rendered" /\ last.args = <<"oCyclic">>
    /\ ghost[1].late = Some(FALSE)
    /\ Len(out) = 4 /\ out[1].flush /\ out[3].rec.args = <<"oCyclic">>

\* C12: a dispatch that passes the severity filter when at least throttle
\* has elapsed since the previous dispatch of the instance is rendered by
\* that call, whatever its fingerprint and whatever the repeat counter.
C12_LateRendered ==
    [][(last'.op = "call" /\ last'.inst = 1 /\ last'.res # "dropped"
            /\ lastLog[1].time # None
            /\ now - lastLog[1].time[1] >= options[1].throttle)
        => /\ last'.res = "rendered"
           /\ RendersLast(1, NewRecord)]_vars

\* a late dispatch whose fingerprint is the stored one, with the repeat
\* counter already over throttleMin
C12_Witness ==
    /\ Dispatched(1) /\ last.res = "rendered" /\ ghost[1].late = Some(TRUE)
    /\ lastLog[1].serialized = Some(Serialize(lastLog[1].object[1]))
    /\ Len(out) = 4 /\ out[1].flush

\* the step hands a flush re-render to a reporter of instance i
Flushes(i) == \E k \in 1..Len(out') : out'[k].flush /\ out'[k].inst = i

\* C22: a dispatch that passes the filter cancels the pending timer of its
\* instance, so that afterwards the only timer is the one this dispatch
\* scheduled, if any; and a batch of suppressed repeats is flushed once, by
\* the timer or by a dispatch that cancelled the timer, never by a dispatch
\* after the timer has flushed it.
C22_FlushedOnce ==
    [][\A i \in Insts :
        (Dispatched(i)' /\ last'.res # "dropped")
        => /\ lastLog'[i].timeout =
                IF last'.res = "suppressed" THEN Some(now + options[i].throttle) ELSE None
           /\ Flushes(i) => lastLog[i].timeout # None]_vars

\* C29: for every throttleMin >= 0 a flush re-render happens only when at
\* least one dispatch was absorbed by suppression since the previous flush,
\* and a rendered dispatch hands no re-render to a reporter unless a repeat
\* of the previous record was suppressed.
C29_FlushNeedsAbsorbed ==
    [][\A i \in Insts :
          Flushes(i) => (ghost[i].absorbed >= 1 /\ ghost'[i].absorbed = 0)]_vars

\* the stored fingerprint of instance i is that of its stored record
FingerprintOfStored(i) ==
    /\ lastLog[i].object # None
    /\ CanSerialize(lastLog[i].object[1])
    /\ lastLog[i].serialized = Some(Serialize(lastLog[i].object[1]))

\* C27: in every state with count > throttleMin the stored fingerprint is
\* the fingerprint of the stored last rendered record, and a flush
\* re-renders a record with the fingerprint of the dispatches that were
\* suppressed.
C27_FlushShowsSuppressed ==
    [][/\ (OrZero(lastLog'[1].count) > ThrottleMin(1)) => FingerprintOfStored(1)'
       /\ (Flushes(1) /\ ghost[1].pend # None)
             => \A k \in 1..Len(out') :
                   out'[k].flush =>
                      Serialize([out'[k].rec EXCEPT !.args = Unannotated(@)])
                         = ghost[1].pend[1]]_vars

\* C21: in a run of identical records, each dispatched within the window of
\* the previous dispatch, the dispatches at positions 1..throttleMin are
\* rendered at the call, whatever repeats earlier records had accumulated.
C21_RunStartsOver ==
    (last.op = "call" /\ ghost[last.inst].run # None
        /\ ghost[last.inst].run[1] <= options[last.inst].throttleMin)
    => last.res = "rendered"

----------------------------------------------------------------------------
(* The built-in reporter: src/src/reporters/basic.ts, utils/stream.ts *)

bracket(x) == IF x # "" THEN "[" \o x \o "]" ELSE ""

\* arr.filter(Boolean).join(" ")
filterAndJoin(arr) == Join(SelectSeq(arr, LAMBDA x : x # ""), " ")

\* formatWithOptions(opts, ...args) of strings without format directives
formatArgs(args) == Join(args, " ")

formatLogObj(logObj) ==
    LET message == formatArgs(logObj.args) IN
    IF logObj.type = "box"
    THEN "\n" \o Join([k \in 1..Len(SelectSeq(<<bracket(logObj.tag), message>>,
                                               LAMBDA x : x # "")) |->
                           " > " \o SelectSeq(<<bracket(logObj.tag), message>>,
                                              LAMBDA x : x # "")[k]], "\n") \o "\n"
    ELSE filterAndJoin(<<bracket(logObj.type), bracket(logObj.tag), message>>)

writeStream_direct(data, stream, S) ==
    IF S[stream].write = "own" THEN [S EXCEPT ![stream].data = Append(@, data)] ELSE S

\* writeStream(data, stream) on the streams S: the function called is
\* stream.__write when there is one, else stream.write; a stream's own write
\* stores the data, a write installed by wrapStd would dispatch it as a log
writeStream(data, stream, S) ==
    LET write == IF S[stream].__write # None THEN S[stream].__write[1] ELSE S[stream].write IN
    IF write = "own" THEN [S EXCEPT ![stream].data = Append(@, data)] ELSE S

\* the stream BasicReporter.log picks, lines 174-176
Target(logObj, o) ==
    IF logObj.level < 2
    THEN IF o.stderr # None THEN o.stderr[1] ELSE "process.stderr"
    ELSE IF o.stdout # None THEN o.stdout[1] ELSE "process.stdout"

\* BasicReporter.log(logObj, {options: o}) on the streams S.  Reading
\* (ctx.options.stdout as any).columns of an undefined stdout raises a
\* TypeError before anything is written.
BasicReporter_log(logObj, o, S) ==
    IF o.stdout = None
    THEN [streams |-> S, result |-> Some("TypeError")]
    ELSE [streams |-> writeStream(formatLogObj(logObj) \o "\n", Target(logObj, o), S),
          result |-> None]

\* nothing written yet in this step
Fresh(S) == [s \in DOMAIN S |-> [S[s] EXCEPT !.data = <<>>]]

\* _wrapStream(stream, "log") of instance i, lines 283-295
_wrapStream(stream, i, S) ==
    IF stream = None THEN S
    ELSE [S EXCEPT ![stream[1]] =
            [@ EXCEPT !.__write = IF @ = None THEN Some(S[stream[1]].write) ELSE @,
                      !.write = "consola" \o ToString(i)]]

\* _restoreStream(stream), lines 310-318
_restoreStream(stream, S) ==
    IF stream = None \/ S[stream[1]].__write = None THEN S
    ELSE [S EXCEPT ![stream[1]] = [@ EXCEPT !.write = S[stream[1]].__write[1],
                                           !.__write = None]]

EngineUnchanged == UNCHANGED <<now, paused, queue, options, lastLog, ghost, console>>

wrapStd(i) ==
    /\ streams' = _wrapStream(options[i].stderr, i,
                              _wrapStream(options[i].stdout, i, Fresh(streams)))
    /\ out' = <<>> /\ calls' = <<>> /\ result' = None
    /\ last' = Op("wrapStd", i, "", FALSE, <<>>, "")
    /\ EngineUnchanged

restoreStd(i) ==
    /\ streams' = _restoreStream(options[i].stderr,
                                 _restoreStream(options[i].stdout, Fresh(streams)))
    /\ out' = <<>> /\ calls' = <<>> /\ result' = None
    /\ last' = Op("restoreStd", i, "", FALSE, <<>>, "")
    /\ EngineUnchanged

\* _log hands the record of a dispatch of kind `type` to the built-in reporter
ReporterLog(i, type, args) ==
    \E r \in {BasicReporter_log(
                 BuildLogObj(Defaults(type, options[i].types), args, FALSE, now,
                             options[i].types),
                 options[i], Fresh(streams))} :
        /\ streams' = r.streams
        /\ result' = r.result
        /\ out' = <<>> /\ calls' = <<>>
        /\ last' = Op("report", i, type, FALSE, args, "")
        /\ EngineUnchanged

\* the function consola[type].raw of instance i
RawFn(i, type) == "consola" \o (IF i = 1 THEN "1" ELSE "2") \o "." \o type \o ".raw"

\* lines 244-255: the loop body touches console[type] and console["__" + type]
\* only, so the kinds are independent of each other
wrapConsole(i) ==
    /\ console' =
          [p \in DOMAIN console |->
              IF p \in DOMAIN options[i].types THEN Some(RawFn(i, p))
              ELSE IF \E t \in DOMAIN options[i].types : p = "__" \o t
              THEN LET t == CHOOSE t \in DOMAIN options[i].types : p = "__" \o t
                   IN  IF console[p] = None THEN console[t] ELSE console[p]
              ELSE console[p]]
    /\ out' = <<>> /\ calls' = <<>> /\ result' = None
    /\ last' = Op("wrapConsole", i, "", FALSE, <<>>, "")
    /\ UNCHANGED <<now, paused, queue, options, lastLog, ghost, streams>>

\* lines 261-268: a kind is restored, and its backup deleted, only when the
\* backup is truthy
restoreConsole(i) ==
    /\ console' =
          [p \in DOMAIN console |->
              IF p \in DOMAIN options[i].types
              THEN IF console["__" \o p] # None THEN console["__" \o p] ELSE console[p]
              ELSE IF \E t \in DOMAIN options[i].types : p = "__" \o t
              THEN None
              ELSE console[p]]
    /\ out' = <<>> /\ calls' = <<>> /\ result' = None
    /\ last' = Op("restoreConsole", i, "", FALSE, <<>>, "")
    /\ UNCHANGED <<now, paused, queue, options, lastLog, ghost, streams>>

\* a call console[p](...args) by the program: it reaches the raw call-site of
\* the instance whose function line 251 has put there, the native method, or
\* raises a TypeError where console has no such method
ConsoleCall(p, args) ==
    IF \E i \in Insts : console[p] = Some(RawFn(i, p))
    THEN \E i \in Insts : console[p] = Some(RawFn(i, p)) /\ _wrapLogFn(i, p, TRUE, args)
    ELSE /\ result' = IF console[p] = None THEN Some("TypeError") ELSE None
         /\ out' = <<>> /\ calls' = <<>>
         /\ last' = Op("console", 0, p, FALSE, args, "")
         /\ UNCHANGED <<now, paused, queue, options, lastLog, ghost, console, streams>>

----------------------------------------------------------------------------
(* SpecConsole: two instances intercepting console in any order, the second *)
(* with the default kinds or with kinds of its own, and a program that      *)
(* calls console.log and console.success                                    *)

InitConsole ==
    \E types \in {None, Some(CustomTypes)} :
        InitWith([i \in Insts |-> IF i = 1 THEN ConsolaOfTypes(UndefinedInput, None)
                                  ELSE ConsolaOfTypes(UndefinedInput, types)], GhostOff)

NextConsole ==
    \/ \E i \in Insts : wrapConsole(i)
    \/ \E i \in Insts : restoreConsole(i)
    \/ \E p \in {"log", "success"} : ConsoleCall(p, <<"a">>)

SpecConsole == InitConsole /\ [][NextConsole]_vars

\* C17: after restoreConsole, every method of console named by a kind of the
\* restoring instance is what it was before the first wrapConsole, the kinds
\* for which console had no method included
C17_ExactlyReversible ==
    last.op = "restoreConsole" =>
        \A t \in DOMAIN options[last.inst].types : console[t] = NativeConsole[t]

----------------------------------------------------------------------------
(* Interactive prompting: prompt(message, opts), lines 140-145 *)

Threw(message) == [threw |-> Some(message), fn |-> None, message |-> None, opts |-> None]

prompt_noopts(o, message, opts) ==
    IF o.prompt = None THEN Threw("prompt is not supported!")
    ELSE [threw |-> None, fn |-> o.prompt, message |-> Some(message), opts |-> None]

\* the outcome of prompt on an instance with options o: the error thrown, or
\* the call made to the collaborator
prompt(o, message, opts) ==
    IF o.prompt = None THEN Threw("prompt is not supported!")
    ELSE [threw |-> None, fn |-> o.prompt, message |-> Some(message), opts |-> opts]

Prompt(i, message, opts) ==
    /\ result' = Some(prompt(options[i], message, opts))
    /\ out' = <<>> /\ calls' = <<>>
    /\ last' = Op("prompt", i, "", FALSE, <<message, opts>>, "")
    /\ UNCHANGED <<now, paused, queue, options, lastLog, ghost, console, streams>>

----------------------------------------------------------------------------
(* SpecPrompt: prompting on an instance without a prompt collaborator and   *)
(* on one with it, while the engine dispatches, suppresses, pauses, resumes *)
(* and changes threshold                                                    *)

InitPrompt ==
    \E m \in {1} :
        InitWith([i \in Insts |->
            [Consola(UndefinedInput, 1, m, <<"r1">>) EXCEPT
                !.prompt = IF i = 1 THEN None ELSE Some("promptFn")]], GhostOff)

NextPrompt ==
    \/ \E i \in Insts, message \in {"q1", "q2"}, opts \in {None, Some("confirm")} :
            Prompt(i, message, opts)
    \/ _wrapLogFn(1, "info", FALSE, <<"a">>)
    \/ TimerFire(1)
    \/ \E i \in Insts : pauseLogs(i)
    \/ \E i \in Insts : resumeLogs(i)
    \/ SetLevel(1, NumberInput(4))
    \/ now < options[1].throttle /\ Tick

SpecPrompt == InitPrompt /\ [][NextPrompt]_vars

\* C18: prompt on an instance without a prompt collaborator throws and
\* leaves threshold, reporters, dedup state, pause flag and queue as they
\* were; with a collaborator the call goes to it with the same message and
\* options
C18_Prompt ==
    [][last'.op = "prompt" =>
        /\ UNCHANGED <<options, lastLog, paused, queue>>
        /\ result' # None
        /\ IF options[last'.inst].prompt = None
           THEN result'[1].threw # None /\ result'[1].fn = None
           ELSE /\ result'[1].threw = None
                /\ result'[1].fn = options[last'.inst].prompt
                /\ result'[1].message = Some(last'.args[1])
                /\ result'[1].opts = last'.args[2]]_vars

\* prompt throws on instance 1 while the engine is paused with a queued
\* dispatch and a raised threshold
C18_Witness ==
    /\ last.op = "prompt" /\ last.inst = 1 /\ last.args = <<"q1", Some("confirm")>>
    /\ result = Some(Threw("prompt is not supported!"))
    /\ paused /\ queue # <<>> /\ options[1].level = 4
    /\ lastLog[1].object # None

----------------------------------------------------------------------------
(* SpecReporter: the built-in reporter on instances with and without       *)
(* configured streams, while wrapStd/restoreStd intercept the streams      *)

ReporterArgs == {<<"a">>, <<"a", "b">>, <<"oMsgLevel">>}

InitReporter ==
    \E so \in {None, Some("process.stdout"), Some("custom")},
       se \in {None, Some("process.stderr")} :
        InitWith([i \in Insts |->
                    IF i = 1
                    THEN [Consola(UndefinedInput, 1, 1, <<"basic">>) EXCEPT
                             !.stdout = so, !.stderr = se]
                    ELSE [Consola(UndefinedInput, 1, 1, <<"basic">>) EXCEPT
                             !.stdout = Some("process.stdout"),
                             !.stderr = Some("process.stderr")]],
                 GhostOff)

NextReporter ==
    \/ \E i \in Insts, type \in DOMAIN LogTypes, args \in ReporterArgs :
          ReporterLog(i, type, args)
    \/ \E i \in Insts : wrapStd(i)
    \/ \E i \in Insts : restoreStd(i)

SpecReporter == InitReporter /\ [][NextReporter]_vars

\* the record the built-in reporter was handed in the last step
Reported ==
    BuildLogObj(Defaults(last.type, options[last.inst].types), last.args, FALSE, now,
                options[last.inst].types)

\* the number of writes the streams received in the last step
WriteCount ==
    Len(streams["process.stdout"].data) + Len(streams["process.stderr"].data)
        + Len(streams["custom"].data)

\* the stream named stderr, or stdout, for instance i
Stderr(i) == IF options[i].stderr # None THEN options[i].stderr[1] ELSE "process.stderr"
Stdout(i) == IF options[i].stdout # None THEN options[i].stdout[1] ELSE "process.stdout"

\* the text of a record: its bracketed kind and its arguments
TextOf(rec) ==
    IF rec.type = "box" THEN "\n > " \o Join(rec.args, " ") \o "\n"
    ELSE "[" \o rec.type \o "] " \o Join(rec.args, " ")

\* C14: whenever the built-in reporter is handed a record it writes the
\* record's text followed by one newline, in exactly one write, to stderr
\* when the record's severity is < 2 and to stdout otherwise.
C14_OneWritePerRecord ==
    last.op = "report"
    => /\ WriteCount = 1
       /\ streams[IF Reported.level < 2 THEN Stderr(last.inst) ELSE Stdout(last.inst)].data
             = <<TextOf(Reported) \o "\n">>

\* the stream the built-in reporter picked in the last step
ReportTarget == IF Reported.level < 2 THEN Stderr(last.inst) ELSE Stdout(last.inst)

\* the streams instance i was configured with
Configured(i) ==
    {s \in DOMAIN streams : options[i].stdout = Some(s) \/ options[i].stderr = Some(s)}

\* C30: while a stream is wrapped by wrapStd, what the built-in reporter
\* writes for a record goes to the stream's saved original write: the
\* stream receives the text in one write, nothing else is written and the
\* wrapping stays as it was; after restoreStd every stream of the instance
\* has its original write and no saved copy.
C30_NoSelfFeeding ==
    [][/\ (last'.op = "report" /\ streams[ReportTarget'].__write # None)
            => /\ WriteCount' <= 1
               /\ result' = None
                     => streams'[ReportTarget'].data = <<TextOf(Reported') \o "\n">>
               /\ \A s \in DOMAIN streams :
                     /\ streams'[s].write = streams[s].write
                     /\ streams'[s].__write = streams[s].__write
       /\ last'.op = "restoreStd"
            => \A s \in Configured(last'.inst) :
                  streams'[s].write = "own" /\ streams'[s].__write = None]_vars

\* the built-in reporter of instance 1 wrote a record to its wrapped stdout
C30_Witness ==
    /\ last.op = "report" /\ last.inst = 1 /\ result = None
    /\ Reported.level >= 2
    /\ streams[ReportTarget].__write = Some("own")
    /\ streams[ReportTarget].write = "consola1"
    /\ WriteCount = 1

----------------------------------------------------------------------------
(* Box drawing: src/src/utils/box.ts.  A string is a sequence of characters; *)
(* a glyph is named by its code point, an ANSI escape sequence is one token. *)

AnsiOpen == "ESC[37m"
AnsiClose == "ESC[39m"
AnsiCodes == {AnsiOpen, AnsiClose, "ESC[31m"}

\* stripAnsi(text), string.ts:31
stripAnsi(text) == SelectSeq(text, LAMBDA c : c \notin AnsiCodes)

\* text.split(sep)
RECURSIVE Split(_, _)
Split(text, sep) ==
    IF \A k \in 1..Len(text) : text[k] # sep THEN <<text>>
    ELSE LET k == CHOOSE j \in 1..Len(text) :
                    text[j] = sep /\ \A h \in 1..(j - 1) : text[h] # sep
         IN  <<SubSeq(text, 1, k - 1)>> \o Split(SubSeq(text, k + 1, Len(text)), sep)

\* lines.join(sep)
RECURSIVE JoinLines(_, _)
JoinLines(lines, sep) ==
    IF lines = <<>> THEN <<>>
    ELSE IF Len(lines) = 1 THEN lines[1]
    ELSE lines[1] \o <<sep>> \o JoinLines(Tail(lines), sep)

\* s.repeat(n), n >= 0
RECURSIVE Repeat(_, _)
Repeat(str, n) == IF n <= 0 THEN <<>> ELSE str \o Repeat(str, n - 1)

\* the three presets used here: corners, horizontal and vertical glyphs
boxStylePresets ==
    [solid   |-> [tl |-> "U+250C", tr |-> "U+2510", bl |-> "U+2514", br |-> "U+2518",
                  h |-> "U+2500", v |-> "U+2502"],
     double  |-> [tl |-> "U+2554", tr |-> "U+2557", bl |-> "U+255A", br |-> "U+255D",
                  h |-> "U+2550", v |-> "U+2551"],
     rounded |-> [tl |-> "U+256D", tr |-> "U+256E", bl |-> "U+2570", br |-> "U+256F",
                  h |-> "U+2500", v |-> "U+2502"]]

defaultStyle ==
    [borderStyle |-> "rounded", valign |-> "center", padding |-> 2,
     marginLeft |-> 1, marginTop |-> 1, marginBottom |-> 1]

\* the colour function getColor returns: the escape codes around the text
\* where colours are supported, the text itself (String) where they are not
Color(str, isColorSupported) ==
    IF isColorSupported /\ str # <<>> THEN <<AnsiOpen>> \o str \o <<AnsiClose>> ELSE str

paddingOffset_raw(padding) == padding

\* lines 246-248: the padding rounded up to even
paddingOffset(padding) == IF padding % 2 = 0 THEN padding ELSE padding + 1

Max(S) == CHOOSE x \in S : \A y \in S : y <= x

\* box(text, {title, style}); None when String.prototype.repeat raises a
\* RangeError on a negative count (a title wider than the box)
box(text, title, style, isColorSupported) ==
    LET textLines == Split(text, "\n")
        preset == IF style.borderStyle \in DOMAIN boxStylePresets
                  THEN boxStylePresets[style.borderStyle] ELSE boxStylePresets.solid
        b == [key \in DOMAIN preset |-> Color(<<preset[key]>>, isColorSupported)]
        po == paddingOffset(style.padding)
        height == Len(textLines) + po
        width == Max({Len(stripAnsi(textLines[k])) : k \in 1..Len(textLines)}) + po
        widthOffset == width + po
        leftSpace == IF style.marginLeft > 0 THEN Repeat(<<" ">>, style.marginLeft) ELSE <<>>
        marginTop == IF style.marginTop > 0 THEN <<<<>>>> ELSE <<>>
        marginBottom == IF style.marginBottom > 0 THEN <<<<>>>> ELSE <<>>
        nLeft == IF title = None THEN 0 ELSE (width - Len(stripAnsi(title[1]))) \div 2
        nRight == IF title = None THEN 0
                  ELSE width - Len(stripAnsi(title[1])) - nLeft + po
        top == IF title # None
               THEN leftSpace \o b.tl \o Repeat(b.h, nLeft)
                        \o Color(title[1], isColorSupported) \o Repeat(b.h, nRight) \o b.tr
               ELSE leftSpace \o b.tl \o Repeat(b.h, widthOffset) \o b.tr
        valignOffset == IF style.valign = "center" THEN (height - Len(textLines)) \div 2
                        ELSE IF style.valign = "top" THEN height - Len(textLines) - po
                        ELSE height - Len(textLines)
        row(i) == IF i < valignOffset \/ i >= valignOffset + Len(textLines)
                  THEN leftSpace \o b.v \o Repeat(<<" ">>, widthOffset) \o b.v
                  ELSE leftSpace \o b.v \o Repeat(<<" ">>, po) \o textLines[i - valignOffset + 1]
                           \o Repeat(<<" ">>, width - Len(stripAnsi(textLines[i - valignOffset + 1])))
                           \o b.v
        bottom == leftSpace \o b.bl \o Repeat(b.h, widthOffset) \o b.br
    IN  IF nLeft < 0 \/ nRight < 0 THEN None
        ELSE Some(JoinLines(marginTop \o <<top>> \o [i \in 1..height |-> row(i - 1)]
                              \o <<bottom>> \o marginBottom, "\n"))

\* the engine before any operation, with the arguments `args` of a utility
\* call that is about to be made
InitUtil(args) ==
    /\ now = 0 /\ paused = FALSE /\ queue = <<>>
    /\ options = [i \in Insts |-> Consola(UndefinedInput, 1, 1, <<"r1">>)]
    /\ lastLog = [i \in Insts |-> EmptyLastLog]
    /\ out = <<>> /\ calls = <<>>
    /\ last = Op("args", 0, "", FALSE, args, "")
    /\ ghost = [i \in Insts |-> GhostOff]
    /\ console = NativeConsole /\ streams = NativeStreams /\ result = None

\* the call box(text, {title, style}): its result is kept in `result`
Box ==
    /\ last.op = "args"
    /\ result' = box(last.args[1], last.args[2], last.args[3], last.args[4])
    /\ last' = [last EXCEPT !.op = "box"]
    /\ out' = <<>> /\ calls' = <<>>
    /\ UNCHANGED <<now, paused, queue, options, lastLog, ghost, console, streams>>

----------------------------------------------------------------------------
(* SpecBox: box() on texts of one to three lines, with and without colour  *)
(* codes, for every padding in 0..MaxPadding                               *)

BoxTexts ==
    {<<"H", "e", "l", "l", "o", "!">>,
     <<>>,
     <<"a", "\n", "b", "c">>,
     <<"ESC[31m", "a", "b", "ESC[39m", "\n", "c", "\n">>}

BoxStyles ==
    {[defaultStyle EXCEPT !.padding = p, !.marginLeft = ml, !.marginTop = mt,
                          !.marginBottom = mt, !.valign = va, !.borderStyle = bs] :
        p \in 0..MaxPadding, ml \in {0, 1, 2}, mt \in {0, 1},
        va \in {"center", "top", "bottom"}, bs \in {"rounded", "double", "nostyle"}}

InitBox ==
    \E text \in BoxTexts, title \in {None, Some(<<"T">>)}, style \in BoxStyles,
       isColorSupported \in BOOLEAN :
        InitUtil(<<text, title, style, isColorSupported>>)

NextBox == Box

SpecBox == InitBox /\ [][NextBox]_vars

\* the arguments of the box call and the lines of its result
BoxText == last.args[1]
BoxTitle == last.args[2]
BoxStyle == last.args[3]
BoxLines == Split(result[1], "\n")

\* the border lines and interior rows: the lines of the result without the
\* empty line that a positive marginTop puts first and a positive
\* marginBottom puts last
BoxBody ==
    SubSeq(BoxLines, IF BoxStyle.marginTop > 0 THEN 2 ELSE 1,
           IF BoxStyle.marginBottom > 0 THEN Len(BoxLines) - 1 ELSE Len(BoxLines))

BoxGlyphs ==
    IF BoxStyle.borderStyle \in DOMAIN boxStylePresets
    THEN boxStylePresets[BoxStyle.borderStyle] ELSE boxStylePresets.solid

\* L lines, and the padding rounded up to even
TextLineCount == Len(Split(BoxText, "\n"))
EvenPadding == 2 * ((BoxStyle.padding + 1) \div 2)

\* a top border, L + p' interior rows and a bottom border, all of the same
\* stripped width
BoxShape ==
    /\ Len(BoxBody) = TextLineCount + EvenPadding + 2
    /\ \A i, j \in 1..Len(BoxBody) : Len(stripAnsi(BoxBody[i])) = Len(stripAnsi(BoxBody[j]))

\* the stripped border lines have corner glyphs at position `first` and at
\* their end
BoxCorners(first) ==
    LET top == stripAnsi(BoxBody[1])
        bottom == stripAnsi(BoxBody[Len(BoxBody)])
    IN  /\ top[first] = BoxGlyphs.tl /\ top[Len(top)] = BoxGlyphs.tr
        /\ bottom[first] = BoxGlyphs.bl /\ bottom[Len(bottom)] = BoxGlyphs.br

\* C15 as claimed: without a title, box emits a top border, L + p' interior
\* rows and a bottom border of one stripped width, and the border lines
\* start and end with the corner glyphs of the style.
C15_Original ==
    (last.op = "box" /\ BoxTitle = None) => BoxShape /\ BoxCorners(1)

\* C15 amended: without a title, box emits a top border, L + p' interior
\* rows and a bottom border of one stripped width; each of these lines
\* starts with marginLeft spaces, and after them the border lines start,
\* and at their end they end, with the corner glyphs of the style.
C15_BoxShape ==
    (last.op = "box" /\ BoxTitle = None)
    => /\ BoxShape
       /\ BoxCorners(BoxStyle.marginLeft + 1)
       /\ \A i \in 1..Len(BoxBody), k \in 1..BoxStyle.marginLeft : BoxBody[i][k] = " "

\* "Hello!" in the default style: three interior rows, rounded corners
C15_Witness ==
    /\ last.op = "box" /\ BoxTitle = None /\ BoxStyle = defaultStyle
    /\ BoxText = <<"H", "e", "l", "l", "o", "!">>
    /\ Len(BoxBody) = 5
    /\ stripAnsi(BoxBody[1])[2] = "U+256D"
    /\ stripAnsi(BoxBody[3]) = <<" ", "U+2502", " ", " ", "H", "e", "l", "l", "o", "!",
                                 " ", " ", "U+2502">>

\* the numbers of horizontal glyphs before and after the title in the
\* stripped top border
TitleFill ==
    LET top == stripAnsi(BoxBody[1])
        title == stripAnsi(BoxTitle[1])
        at == CHOOSE k \in 1..Len(top) :
                  SubSeq(top, k, k + Len(title) - 1) = title
                    /\ \A h \in 1..(k - 1) : SubSeq(top, h, h + Len(title) - 1) # title
    IN  [left |-> Cardinality({k \in 1..(at - 1) : top[k] = BoxGlyphs.h}),
         right |-> Cardinality({k \in (at + Len(title))..Len(top) : top[k] = BoxGlyphs.h})]

\* C25: with a non-empty title, box returns a rendering whose top border is
\* as wide as the bottom border when stripped, and the horizontal glyphs
\* right of the title are as many as those left of it, or one more.
C25_TitleCentred ==
    (last.op = "box" /\ BoxTitle # None /\ BoxTitle[1] # <<>>)
    => /\ result # None
       /\ Len(stripAnsi(BoxBody[1])) = Len(stripAnsi(BoxBody[Len(BoxBody)]))
       /\ TitleFill.right - TitleFill.left \in {0, 1}

----------------------------------------------------------------------------
(* Tree drawing: src/src/utils/tree.ts.  A chunk is a sequence of tokens:   *)
(* the indentation pieces, a branch glyph, the text and the newline.        *)

BranchLast == "U+2514 U+2500"      \* the glyphs of the last item's branch
BranchItem == "U+251C U+2500"      \* the glyphs of any other item's branch
Continue == "U+2502 2 spaces"      \* the continuation under an item that is not last

\* a TreeItem that is a string, and a TreeItemObject
Leaf(text) == [text |-> text, isString |-> TRUE, children |-> None, color |-> None]
Node(text, children, color) ==
    [text |-> text, isString |-> FALSE, children |-> children, color |-> color]

\* chunks.join("")
RECURSIVE Flatten(_)
Flatten(chunks) == IF chunks = <<>> THEN <<>> ELSE Head(chunks) \o Flatten(Tail(chunks))

isLimit_lt(opts) == opts.maxDepth # None /\ opts.maxDepth[1] < 0

\* line 122: options?.maxDepth != null && options.maxDepth <= 0
isLimit(opts) == opts.maxDepth # None /\ opts.maxDepth[1] <= 0

ChildPrefix_continued(prefix, isLast) == prefix \o <<Continue>>

\* line 156: the prefix of the children of an item
ChildPrefix(prefix, isLast) == prefix \o <<IF isLast THEN "  " ELSE Continue>>

RECURSIVE _buildTree(_, _, _)
RECURSIVE TreeChunks(_, _, _, _)

\* the loop of _buildTree from item i on, while the limit is not reached
TreeChunks(items, i, opts, isColorSupported) ==
    IF i > Len(items) THEN <<>>
    ELSE
    LET item == items[i]
        isLast == i = Len(items)
        prefix == opts.prefix \o <<IF isLast THEN BranchLast ELSE BranchItem>>
        log == prefix \o <<item.text, "\n">>
        own == IF item.isString THEN <<log>>
               ELSE <<IF item.color # None THEN Color(log, isColorSupported) ELSE log>>
        sub == IF ~item.isString /\ item.children # None
               THEN _buildTree(item.children[1],
                        [opts EXCEPT
                            !.maxDepth = IF @ = None THEN None ELSE Some(@[1] - 1),
                            !.prefix = ChildPrefix(@, isLast)],
                        isColorSupported)
               ELSE <<>>
    IN  own \o sub \o TreeChunks(items, i + 1, opts, isColorSupported)

_buildTree(items, opts, isColorSupported) ==
    IF items # <<>> /\ isLimit(opts)
    THEN LET ellipsis == opts.prefix \o <<opts.ellipsis, "\n">> IN
         <<IF ~items[1].isString /\ items[1].color # None
           THEN Color(ellipsis, isColorSupported) ELSE ellipsis>>
    ELSE TreeChunks(items, 1, opts, isColorSupported)

\* formatTree(items, {maxDepth, color}) with the default prefix and ellipsis
formatTree(items, maxDepth, color, isColorSupported) ==
    LET opts == [prefix |-> <<"  ">>, ellipsis |-> "...", maxDepth |-> maxDepth,
                    color |-> color]
        tree == Flatten(_buildTree(items, opts, isColorSupported))
    IN  IF color # None THEN Color(tree, isColorSupported) ELSE tree

\* the call formatTree(items, options): its result is kept in `result`
FormatTree ==
    /\ last.op = "args"
    /\ result' = Some(formatTree(last.args[1], last.args[2], last.args[3], last.args[4]))
    /\ last' = [last EXCEPT !.op = "tree"]
    /\ out' = <<>> /\ calls' = <<>>
    /\ UNCHANGED <<now, paused, queue, options, lastLog, ghost, console, streams>>

----------------------------------------------------------------------------
(* SpecTree: formatTree on inputs of one to four levels, for maxDepth unset *)
(* and every maxDepth in -1..MaxDepth                                       *)

Trees ==
    {<<>>,
     <<Leaf("a"), Leaf("b")>>,
     <<Node("a", Some(<<Leaf("a1"), Leaf("a2")>>), None), Leaf("b")>>,
     <<Node("a", Some(<<Node("a1", Some(<<Leaf("a1x")>>), Some("red")), Leaf("a2")>>), None),
       Node("b", Some(<<>>), None),
       Node("c", Some(<<Node("c1", Some(<<Leaf("c1x"), Leaf("c1y")>>), None)>>), Some("red"))>>,
     <<Node("a", Some(<<Node("a1", Some(<<Node("a1x", Some(<<Leaf("a1xp")>>), None)>>),
                            None)>>), None),
       Node("b", None, None)>>}

InitTree ==
    \E items \in Trees, maxDepth \in {None} \cup {Some(d) : d \in -1..MaxDepth},
       color \in {None, Some("red")}, isColorSupported \in BOOLEAN :
        InitUtil(<<items, maxDepth, color, isColorSupported>>)

NextTree == FormatTree

SpecTree == InitTree /\ [][NextTree]_vars

TreeItems == last.args[1]
TreeDepth == last.args[2]

\* the lines of the drawn tree, colour codes removed
TreeLines == SelectSeq(Split(stripAnsi(result[1]), "\n"), LAMBDA l : l # <<>>)

IsEllipsis(line) == line[Len(line)] = "..."
IsItemLine(line) == Len(line) >= 2 /\ line[Len(line) - 1] \in {BranchLast, BranchItem}

\* the nesting level a line stands at: 1 for the top level
LevelOf(line) == IF IsEllipsis(line) THEN Len(line) - 1 ELSE Len(line) - 2

ChildrenOf(item) == IF item.children = None THEN <<>> ELSE item.children[1]

\* the number of items at levels n..hi of a list of items that is at level n
RECURSIVE CountItems(_, _, _)
CountItems(items, n, hi) ==
    IF items = <<>> \/ n > hi THEN 0
    ELSE 1 + CountItems(ChildrenOf(Head(items)), n + 1, hi)
           + CountItems(Tail(items), n, hi)

\* the number of items at level d that have at least one child
RECURSIVE CountParents(_, _, _)
CountParents(items, n, d) ==
    IF items = <<>> \/ n > d THEN 0
    ELSE (IF n = d /\ ChildrenOf(Head(items)) # <<>> THEN 1 ELSE 0)
         + CountParents(ChildrenOf(Head(items)), n + 1, d)
         + CountParents(Tail(items), n, d)

\* C16: with maxDepth = d no line of the tree is an item nested deeper than
\* d levels, every item of the first d levels is drawn, and the ellipsis
\* stands once, one level further in, directly under each item of level d
\* that has children (at the top when d <= 0) and nowhere else
C16_DepthBounded ==
    (last.op = "tree" /\ TreeDepth # None) =>
        LET d == IF TreeDepth[1] < 0 THEN 0 ELSE TreeDepth[1]
            L == TreeLines
        IN  /\ \A k \in 1..Len(L) : IsItemLine(L[k]) \/ IsEllipsis(L[k])
            /\ \A k \in 1..Len(L) : IsItemLine(L[k]) => LevelOf(L[k]) <= TreeDepth[1]
            /\ \A k \in 1..Len(L) : IsEllipsis(L[k]) =>
                    /\ LevelOf(L[k]) = d + 1
                    /\ IF d = 0 THEN Len(L) = 1
                       ELSE k > 1 /\ IsItemLine(L[k - 1]) /\ LevelOf(L[k - 1]) = d
            /\ Cardinality({k \in 1..Len(L) : IsItemLine(L[k])})
                    = CountItems(TreeItems, 1, d)
            /\ Cardinality({k \in 1..Len(L) : IsEllipsis(L[k])})
                    = IF d = 0 THEN (IF TreeItems = <<>> THEN 0 ELSE 1)
                      ELSE CountParents(TreeItems, 1, d)

\* maxDepth = 1 on a two-level input: the children of "a" are replaced
C16_Witness ==
    /\ last.op = "tree" /\ TreeDepth = Some(1)
    /\ TreeItems = <<Node("a", Some(<<Leaf("a1"), Leaf("a2")>>), None), Leaf("b")>>
    /\ TreeLines = << <<"  ", BranchItem, "a">>, <<"  ", Continue, "...">>,
                      <<"  ", BranchLast, "b">> >>

\* the items of a list in depth-first pre-order, each with its text, whether
\* it is the last of its list, and the same of its ancestors from the top
RECURSIVE PreOrder(_, _, _)
PreOrder(items, i, ancestors) ==
    IF i > Len(items) THEN <<>>
    ELSE <<[text |-> items[i].text, isLast |-> i = Len(items), ancestors |-> ancestors]>>
           \o PreOrder(ChildrenOf(items[i]), 1, Append(ancestors, i = Len(items)))
           \o PreOrder(items, i + 1, ancestors)

----------------------------------------------------------------------------
(* SpecNormalize: resolving the threshold at construction and on assignment, *)
(* with the default kinds and with configured kinds of its own               *)

NormalizeInputs ==
    {UndefinedInput} \cup {NumberInput(n) : n \in {NegInf, -1, 0, 4, 7, PosInf}}
        \cup {StringInput(x) : x \in {"warn", "verbose", "silent", "custom", "loud", "nokind"}}

InitNormalize ==
    \E level \in NormalizeInputs, types \in {None, Some(CustomTypes)} :
        /\ now = 0 /\ paused = FALSE /\ queue = <<>>
        /\ options = [i \in Insts |-> IF i = 1 THEN ConsolaOfTypes(level, types)
                                      ELSE ConsolaOfTypes(UndefinedInput, None)]
        /\ lastLog = [i \in Insts |-> EmptyLastLog]
        /\ out = <<>> /\ calls = <<>>
        /\ last = Op("new", 1, "", FALSE, <<level, types>>, "")
        /\ ghost = [i \in Insts |-> GhostOff]
        /\ console = NativeConsole /\ streams = NativeStreams /\ result = None

NextNormalize ==
    \E i \in Insts, input \in NormalizeInputs : SetLevel(i, input)

SpecNormalize == InitNormalize /\ [][NextNormalize]_vars

\* v names a kind of table T that has a configured severity
KnownKind(v, T) == v.t = "string" /\ v.s \in DOMAIN T /\ T[v.s].level # None

\* r is the resolution of v against default d in table T, case by case
Resolves(v, T, d, r) ==
    /\ v.t = "undefined" => r = d
    /\ v.t = "number" => r = v.n
    /\ KnownKind(v, T) => r = T[v.s].level[1]
    /\ (v.t = "string" /\ ~KnownKind(v, T)) => r = d

\* C13: resolving a severity value v against a default d gives d when v is
\* undefined, v itself when v is a number (the infinite sentinels and numbers
\* outside 0..5 included), the configured severity of kind v when v names a
\* kind that has one, and d otherwise; d is 3 at construction and the
\* current threshold when the threshold is assigned.
C13_Resolve ==
    /\ last.op = "new"
          => Resolves(last.args[1], IF last.args[2] = None THEN LogTypes ELSE last.args[2][1],
                      3, options[last.inst].level)
    /\ [][\A i \in Insts :
            (last'.op = "level" /\ last'.inst = i)
            => Resolves(last'.args[1], options[i].types, options[i].level,
                        options'[i].level)]_vars

\* the threshold is a sentinel and is assigned a kind that has no severity
C13_Witness ==
    /\ last.op = "level" /\ last.args = <<StringInput("custom")>>
    /\ "custom" \in DOMAIN options[last.inst].types
    /\ options[last.inst].level = NegInf

----------------------------------------------------------------------------
(* Properties of the pause queue (SpecPause) *)

\* the record _logFn builds for a queued dispatch when it is replayed
ReplayRecord(item) == BuildLogObj(item.defaults, item.args, FALSE, now, LogTypes)

\* one render of each queued dispatch's record, in queue order
RECURSIVE Rendering(_)
Rendering(q) ==
    IF q = <<>> THEN <<>>
    ELSE LET it == Head(q) IN
         [k \in 1..Len(Reporters(it.inst)) |->
             [inst |-> it.inst, reporter |-> Reporters(it.inst)[k],
              rec |-> ReplayRecord(it), flush |-> FALSE]] \o Rendering(Tail(q))

QueuedPass ==
    \A k \in 1..Len(queue) : ~(OrZero(queue[k].defaults.level) > options[queue[k].inst].level)

\* the queued dispatches of one instance build pairwise distinct records
QueuedDistinct ==
    \A j, k \in 1..Len(queue) :
        (j < k /\ queue[j].inst = queue[k].inst)
        => NoDate(ReplayRecord(queue[j])) # NoDate(ReplayRecord(queue[k]))

\* C7 as claimed: dispatches made while paused hand nothing to a reporter,
\* and resumeLogs over n queued dispatches of pairwise distinct records that
\* pass the filter hands exactly those n records over, in dispatch order.
C7_Original ==
    [][/\ last'.res = "queued" => out' = <<>>
       /\ (last'.op = "resume" /\ paused /\ QueuedPass /\ QueuedDistinct)
            => out' = Rendering(queue)]_vars

\* no instance with a queued dispatch has suppressed repeats pending, and
\* the queued records of an instance are serializable with fingerprints that
\* differ from each other and from the instance's stored fingerprint
QueuedFresh ==
    /\ \A k \in 1..Len(queue) :
          LET i == queue[k].inst IN
          /\ OrZero(lastLog[i].count) <= ThrottleMin(i)
          /\ CanSerialize(ReplayRecord(queue[k]))
          /\ lastLog[i].serialized # Some(Serialize(ReplayRecord(queue[k])))
    /\ \A j, k \in 1..Len(queue) :
          (j < k /\ queue[j].inst = queue[k].inst)
          => Serialize(ReplayRecord(queue[j])) # Serialize(ReplayRecord(queue[k]))

\* C7 amended: dispatches made while paused hand nothing to a reporter; if
\* no instance concerned has suppressed repeats pending and the queued
\* records pass the filter and have fingerprints distinct from each other
\* and from the stored one, resumeLogs hands exactly one record per queued
\* dispatch to the reporters, in dispatch order, before it returns.
C7_ResumeRendersQueued ==
    [][/\ last'.res = "queued" => out' = <<>>
       /\ (last'.op = "resume" /\ paused /\ QueuedPass /\ QueuedFresh)
            => out' = Rendering(queue)]_vars

C7_Witness ==
    /\ last.op = "resume" /\ Len(calls) = 2 /\ Len(out) = 4
    /\ calls[1].inst = 1 /\ calls[1].args = <<"a">>
    /\ calls[2].inst = 1 /\ calls[2].args = <<"b">>
    /\ out[1].rec.args = <<"a">> /\ out[3].rec.args = <<"b">>
    /\ \A k \in 1..4 : ~out[k].flush /\ out[k].rec.date = now

\* C8: the pause flag and the queue are shared by all instances: while
\* paused a dispatch on any instance is appended to the queue and nothing
\* else happens, and resumeLogs on any instance invokes _logFn once for each
\* queued dispatch of every instance, in queue order, and empties the queue.
C8_SharedQueue ==
    [][/\ last'.op = "pause" => paused'
       /\ (last'.op = "call" /\ paused)
            => /\ queue' = Append(queue,
                      [inst |-> last'.inst, defaults |-> Defaults(last'.type, LogTypes),
                       args |-> last'.args, isRaw |-> last'.isRaw])
               /\ out' = <<>> /\ calls' = <<>> /\ lastLog' = lastLog /\ paused'
       /\ last'.op = "resume"
            => /\ ~paused' /\ queue' = <<>>
               /\ Len(calls') = Len(queue)
               /\ \A k \in 1..Len(queue) :
                     /\ calls'[k].inst = queue[k].inst
                     /\ calls'[k].defaults = queue[k].defaults
                     /\ calls'[k].args = queue[k].args]_vars

\* instance 2 resumes and drains dispatches queued on instances 1 and 2
C8_Witness ==
    /\ last.op = "resume" /\ last.inst = 2 /\ queue = <<>> /\ ~paused
    /\ Len(calls) = 2 /\ calls[1].inst = 1 /\ calls[2].inst = 2

----------------------------------------------------------------------------
(* SpecArgs: how a call's arguments become the record, direct and replayed, *)
(* on one instance at one instant, with at most one dispatch queued         *)

ArgLists ==
    {<<>>, <<"a">>, <<"err">>, <<"oMsg">>, <<"oMsgStack">>, <<"oArgs">>, <<"oArgsStack">>,
     <<"oMsgArgs">>, <<"oEmptyMsg">>, <<"oMsgEmptyStack">>, <<"oMsgLevel">>, <<"oOther">>,
     <<"oMsg", "a">>}

InitArgs ==
    InitWith([i \in Insts |-> Consola(UndefinedInput, 1, 1, <<"r1">>)],
             GhostOff)

NextArgs ==
    \/ \E isRaw \in BOOLEAN, args \in ArgLists :
          queue = <<>> /\ _wrapLogFn(1, "info", isRaw, args)
    \/ pauseLogs(1)
    \/ resumeLogs(1)

SpecArgs == InitArgs /\ [][NextArgs]_vars

----------------------------------------------------------------------------
(* Derived instances and reporter lists: consola.ts lines 66-114, 151-220.  *)
(* options.reporters is an array object: `array` names it, and a change     *)
(* made through one instance shows in every instance that holds the same    *)
(* array.                                                                   *)

Arrays == 1..4

\* an array object no instance other than i holds
FreshArray(opts, i) ==
    CHOOSE id \in Arrays :
        /\ \A j \in DOMAIN opts \ {i} : opts[j].array # id
        /\ \A h \in 1..(id - 1) : \E j \in DOMAIN opts \ {i} : opts[j].array = h

construct_shared(o, id) == o

\* new Consola(o): `reporters: [...(options.reporters || [])]` (line 74) is a
\* copy of the list in an array of its own
construct(o, id) == [o EXCEPT !.array = id]

\* create(overrides): new Consola({...this.options, ...options})
create(o, reporters, id) ==
    construct(IF reporters = None THEN o
              ELSE [o EXCEPT !.reporters = reporters[1], !.array = 0], id)

\* withDefaults({tag}): create({...this.options, defaults: {...defaults, tag}})
withDefaults(o, tag, id) == create([o EXCEPT !.defaults.tag = Some(tag)], None, id)

\* withTag(tag)
withTag(o, tag, id) ==
    withDefaults(o, IF o.defaults.tag # None /\ o.defaults.tag[1] # ""
                    THEN o.defaults.tag[1] \o ":" \o tag ELSE tag, id)

\* the reporter list of i becomes arr by a change in place: in every instance
\* that holds the same array
Mutate(i, arr) ==
    [j \in Insts |-> IF options[j].array = options[i].array
                     THEN [options[j] EXCEPT !.reporters = arr]
                     ELSE options[j]]

IndexOf(arr, x) ==
    IF \E k \in 1..Len(arr) : arr[k] = x
    THEN CHOOSE k \in 1..Len(arr) : arr[k] = x /\ \A h \in 1..(k - 1) : arr[h] # x
    ELSE 0

\* arr.splice(k, 1)
Splice(arr, k) == SubSeq(arr, 1, k - 1) \o SubSeq(arr, k + 1, Len(arr))

ReportersUnchanged == UNCHANGED <<now, paused, queue, lastLog, ghost, env>>

addReporter(i, reporter) ==
    /\ Len(options[i].reporters) < MaxReporters
    /\ options' = Mutate(i, Append(options[i].reporters, reporter))
    /\ out' = <<>> /\ calls' = <<>>
    /\ last' = Op("addReporter", i, "", FALSE, <<reporter>>, "")
    /\ ReportersUnchanged

\* removeReporter(reporter); removeReporter() when reporter is None
removeReporter(i, reporter) ==
    /\ options' =
          IF reporter # None
          THEN IF IndexOf(options[i].reporters, reporter[1]) # 0
               THEN Mutate(i, Splice(options[i].reporters,
                                     IndexOf(options[i].reporters, reporter[1])))
               ELSE options
          ELSE Mutate(i, <<>>)
    /\ out' = <<>> /\ calls' = <<>>
    /\ last' = Op("removeReporter", i, "", FALSE, reporter, "")
    /\ ReportersUnchanged

\* setReporters(reporters) with a list the caller keeps no reference to
setReporters(i, reporters) ==
    /\ options' = [options EXCEPT ![i].reporters = reporters,
                                  ![i].array = FreshArray(options, i)]
    /\ out' = <<>> /\ calls' = <<>>
    /\ last' = Op("setReporters", i, "", FALSE, reporters, "")
    /\ ReportersUnchanged

----------------------------------------------------------------------------
(* SpecOwn: an instance and one derived from it by create, withDefaults or  *)
(* withTag, both dispatching the same record while their reporter lists are *)
(* changed                                                                  *)

Root == construct(Consola(UndefinedInput, 1, 1, <<"r1">>), 1)

Derived ==
    {create(Root, None, 2), create(Root, Some(<<"r1", "r2">>), 2),
     withDefaults(Root, "t", 2), withTag(Root, "t", 2),
     withTag(withTag(Root, "s", 3), "t", 2)}

InitOwn ==
    \E d \in Derived : InitWith([i \in Insts |-> IF i = 1 THEN Root ELSE d], GhostOff)

NextOwn ==
    \/ \E i \in Insts : _wrapLogFn(i, "info", FALSE, <<"a">>)
    \/ \E i \in Insts : TimerFire(i)
    \/ \E i \in Insts : addReporter(i, "r3")
    \/ \E i \in Insts, reporter \in {None, Some("r1")} : removeReporter(i, reporter)
    \/ \E i \in Insts : setReporters(i, <<"r2">>)
    \/ now < options[1].throttle /\ Tick

SpecOwn == InitOwn /\ [][NextOwn]_vars

Elements(arr) == {arr[k] : k \in 1..Len(arr)}

----------------------------------------------------------------------------
(* SpecRecord: the record built from pre-built records with message,        *)
(* additional, kind, tag and date, through the plain and the raw call-site, *)
(* over one throttle window                                                 *)

RecordArgs ==
    {<<"a">>, <<"oMsg">>, <<"oFull">>, <<"oAddArr">>, <<"oAddOne">>, <<"oNoString">>,
     <<"oEmptyBoth">>, <<"oFull", "a">>}

InitRecord ==
    InitWith([i \in Insts |-> Consola(UndefinedInput, 1, 1, <<"r1">>)], GhostOff)

NextRecord ==
    \/ \E isRaw \in BOOLEAN, args \in RecordArgs : _wrapLogFn(1, "info", isRaw, args)
    \/ TimerFire(1)
    \/ now < options[1].throttle /\ Tick

SpecRecord == InitRecord /\ [][NextRecord]_vars

----------------------------------------------------------------------------
(* SpecLevel: the severity filter for every kind and threshold, on one      *)
(* instance over one throttle window                                        *)

LevelInputs ==
    {NumberInput(NegInf), NumberInput(PosInf), NumberInput(1), StringInput("info")}

InitLevel ==
    InitWith([i \in Insts |-> Consola(UndefinedInput, 1, 1, <<"r1">>)],
             GhostOff)

NextLevel ==
    \/ \E type \in DOMAIN LogTypes : queue = <<>> /\ _wrapLogFn(1, type, FALSE, <<"a">>)
    \/ \E input \in LevelInputs : SetLevel(1, input)
    \/ TimerFire(1)
    \/ pauseLogs(1)
    \/ resumeLogs(1)
    \/ now < options[1].throttle /\ Tick

SpecLevel == InitLevel /\ [][NextLevel]_vars

----------------------------------------------------------------------------
(* Properties of the severity filter (SpecArgs, SpecLevel) *)

\* C1: while the threshold of an instance is s1, no dispatch (direct or
\* replayed, plain or raw, whatever its arguments) hands a record of
\* severity s2 > s1 to a reporter of that instance.
C1_NoRecordAboveThreshold ==
    last.op \in {"call", "resume"}
    => \A k \in 1..Len(out) : ~(out[k].rec.level > options[out[k].inst].level)

AboveThreshold ==
    /\ last'.op = "call"
    /\ OrZero(Defaults(last'.type, options[last'.inst].types).level)
          > options[last'.inst].level

\* C20: a dispatch made while not paused, of a kind whose severity exceeds
\* the threshold, hands nothing to a reporter and leaves the dedup/throttle
\* state (last record, fingerprint, repeat counter, last timestamp) and a
\* pending flush timer as they were.
C20_DroppedChangesNothing ==
    [][(~paused /\ AboveThreshold) =>
          /\ out' = <<>>
          /\ lastLog' = lastLog
          /\ UNCHANGED <<paused, queue, options>>]_vars

\* a debug dispatch was dropped at threshold 3 while a suppressed repetition
\* of an info record waits for its timer
C20_Witness ==
    /\ last.op = "call" /\ last.type = "debug" /\ last.res = "dropped" /\ ~paused
    /\ options[1].level = 3 /\ out = <<>>
    /\ lastLog[1].timeout # None
    /\ OrZero(lastLog[1].count) > options[1].throttleMin
    /\ lastLog[1].object # None /\ lastLog[1].object[1].type = "info"

\* C28: while logging is paused no reporter of any instance is invoked,
\* whatever step runs, a deferred flush timer scheduled before the pause
\* included.
C28_SilentWhilePaused ==
    [][(paused /\ paused') => (out' = <<>> /\ calls' = <<>>)]_vars

\* C19: a dispatch made while paused, of a kind whose severity exceeds the
\* threshold of its instance at that time, is dropped at once and is not
\* put on the queue.
C19_FilterBeforePause ==
    [][(paused /\ AboveThreshold) => (queue' = queue /\ last'.res = "dropped")]_vars

----------------------------------------------------------------------------
(* Properties of argument handling (SpecArgs) *)

\* the record the last dispatch on instance 1 rendered
Rendered == lastLog[1].object[1]

\* the arguments of a record into which the plain object o was merged
MergedArgs(o) ==
    (IF o.message # None /\ o.message[1] # "" THEN <<o.message[1]>> ELSE <<>>)
        \o (IF o.hasArgs THEN o.args ELSE <<>>)

Merged(rec, o) ==
    /\ rec.args = MergedArgs(o)
    /\ o.level # None => rec.level = o.level[1]

Truthy(x) == x # None /\ x[1] # ""

C10_RawIsLiteral ==
    [][/\ (Dispatched(1)' /\ last'.isRaw /\ last'.res = "rendered")
            => lastLog'[1].object[1].args = last'.args
       /\ (last'.op = "resume" /\ Len(queue) = 1 /\ queue[1].isRaw)
            => \A k \in 1..Len(out') :
                  ~out'[k].flush => out'[k].rec.args = queue[1].args]_vars

----------------------------------------------------------------------------
(* Properties of the record handed to reporters (SpecRecord) *)

\* the last step merged a pre-built record into the record it built
MergesObject == ~last.isRaw /\ Len(last.args) = 1 /\ isLogObj(last.args[1])

IsLowerCase(str) == str \notin {"INFO", "WARN"}

Lines(a) == IF a.isArray THEN a.v ELSE SplitLines(a.v)

\* kind is a lower-cased string, tag a string, severity a number
NormalKind(rec) ==
    /\ IsString(rec.type) /\ IsLowerCase(rec.type)
    /\ IsString(rec.tag)
    /\ rec.level \in Int

\* C23 as claimed: every record handed to a reporter has no message and no
\* additional field left, a present message first and a present additional,
\* newline-joined, last among its arguments, a lower-cased kind, a string
\* tag, a numeric severity and the dispatch time as timestamp.
C23_Original ==
    \A k \in 1..Len(out) :
        LET rec == out[k].rec IN
        /\ rec.message = None /\ rec.additional = None
        /\ NormalKind(rec)
        /\ (last.op = "call" /\ ~out[k].flush) =>
              /\ rec.date = now
              /\ MergesObject =>
                    LET o == Objects[last.args[1]] IN
                    /\ o.message # None => (rec.args # <<>> /\ rec.args[1] = o.message[1])
                    /\ o.additional # None =>
                          (rec.args # <<>>
                             /\ rec.args[Len(rec.args)] = Join(Lines(o.additional[1]), "\n"))

\* the arguments of a record into which the pre-built record o was merged
NormalArgs(o) ==
    MergedArgs(o)
      \o (IF o.additional # None /\ (o.additional[1].isArray \/ o.additional[1].v # "")
          THEN <<"\n" \o Join(Lines(o.additional[1]), "\n")>> ELSE <<>>)

\* C23 amended: every record handed to a reporter has a lower-cased string
\* kind ("log" when it was no string), a string tag (empty when it was no
\* string) and a numeric severity; a truthy message has been moved to the
\* front of the arguments and removed; a truthy additional has been removed
\* and appended as the last argument, a newline followed by its lines joined
\* with newlines; the timestamp is the date of the merged pre-built record
\* when it has one, else the dispatch time.
C23_Normalized ==
    \A k \in 1..Len(out) :
        LET rec == out[k].rec IN
        /\ rec.message \in {None, Some("")}
        /\ rec.additional \in {None, Some(Str(""))}
        /\ NormalKind(rec)
        /\ (last.op = "call" /\ ~out[k].flush) =>
              IF MergesObject
              THEN LET o == Objects[last.args[1]] IN
                   /\ rec.args = NormalArgs(o)
                   /\ rec.date = IF o.date # None THEN o.date[1] ELSE now
                   /\ o.type = Some("WARN") => rec.type = "warn"
                   /\ (o.type # None /\ ~IsString(o.type[1])) => rec.type = "log"
                   /\ (o.tag # None /\ ~IsString(o.tag[1])) => rec.tag = ""
              ELSE rec.args = last.args /\ rec.date = now /\ rec.type = last.type

\* {message: "a", args: ["b"], additional: "x\ny", type: "WARN", tag: "t",
\* date} was merged and rendered
C23_Witness ==
    /\ last.op = "call" /\ last.res = "rendered" /\ last.args = <<"oFull">> /\ ~last.isRaw
    /\ now = 1 /\ Len(out) >= 1
    /\ LET rec == out[Len(out)].rec IN
         /\ rec.args = <<"a", "b", "\nx\ny">>
         /\ rec.type = "warn" /\ rec.tag = "t" /\ rec.date = PastDate
         /\ rec.message = None /\ rec.additional = None

====
